---- MODULE Spec2Model ----
(***************************************************************************)
(* Model of the image enhancement tool:                                    *)
(*   - pages/api/enhance.js : the /api/enhance handler (multer upload,     *)
(*     Python child process, temporary files in uploads/)                  *)
(*   - pages/index.js       : the Home page (file selection, submit,       *)
(*     reset)                                                              *)
(*   - the enhancement pipeline run by the Python script, which is not     *)
(*     part of the available sources and is modelled from spec.md          *)
(***************************************************************************)
EXTENDS Integers, Sequences, FiniteSets, TLC

(***************************************************************************)
(* Bounds of the model                                                     *)
(***************************************************************************)
NumReqs == 2      \* requests the server sees in one behaviour
MaxClock == 0     \* Date.now() takes the values 0..MaxClock
RandRange == 2    \* Math.round(Math.random() * 1E9) takes the values 0..RandRange-1

MaxDirect == 1    \* requests sent by other clients while the page is in use
MaxToggles == 6   \* clicks on the theme toggle in one behaviour

Reqs == 1..NumReqs

(***************************************************************************)
(* Files a client can put in the form                                      *)
(***************************************************************************)
\* enhance.js:25 and index.js:55
MaxFileSize == 10 * 1024 * 1024

\* enhance.js:28
allowedTypes == {"image/jpeg", "image/jpg", "image/png"}

\* index.js:48
validTypes == {"image/jpeg", "image/jpg", "image/png"}

NoFile == [id |-> 0, type |-> "", ext |-> "", size |-> 0]

\* the files the user or another client has at hand: File objects with
\* their type, the extension of their name and their size
UserFiles ==
  { [id |-> 1, type |-> "image/png",  ext |-> ".png", size |-> 1],
    [id |-> 2, type |-> "image/jpeg", ext |-> ".png", size |-> MaxFileSize],
    [id |-> 3, type |-> "image/png",  ext |-> ".png", size |-> MaxFileSize + 1],
    [id |-> 4, type |-> "image/gif",  ext |-> ".gif", size |-> 1] }

\* what a client other than the page sends: a method and a form (a GET
\* without a body, a POST with or without a file, a PUT with a file)
ClientRequests ==
  {[method |-> "GET", file |-> NoFile], [method |-> "POST", file |-> NoFile]}
    \cup {[method |-> "POST", file |-> f] : f \in UserFiles}
    \cup {[method |-> "PUT", file |-> f] : f \in {g \in UserFiles : g.id = 1}}

(***************************************************************************)
(* The uploads directory                                                   *)
(***************************************************************************)
NoName == [t |-> 0 - 1, rnd |-> 0 - 1, ext |-> ""]

Names == [t : 0..MaxClock, rnd : 0..(RandRange - 1), ext : {f.ext : f \in UserFiles}]

\* enhance.js:79  req.file.path = uploads/image-<suffix><ext>
inputPathOf(name) == <<"image-", name>>

\* enhance.js:80-83  'enhanced-' + basename(inputPath)
outputPathOf(name) == <<"enhanced-image-", name>>

Paths == {inputPathOf(n) : n \in Names} \cup {outputPathOf(n) : n \in Names}

Absent == [kind |-> "absent", id |-> 0]
UploadOf(f) == [kind |-> "upload", id |-> f.id]
EnhancedOf(c) == [kind |-> "enhanced", id |-> c.id]

NoBody == [kind |-> "none", id |-> 0]

VARIABLES
  \* ---- server (enhance.js)
  pc,          \* position of the handler of each request
  origin,      \* "none" | "page" | "direct": who sent the request
  method,      \* req.method
  upfile,      \* the file in the multipart form (NoFile when there is none)
  reqFile,     \* the name multer stored the upload under (NoName: req.file unset)
  pyErr,       \* execFileAsync rejected
  pythonRuns,  \* number of times the Python process was started for the request
  path,        \* the branch on which the handler ended
  resps,       \* the responses sent for the request, in order
  disk,        \* content of every path of the uploads directory
  uploadDir,   \* the uploads directory exists
  mkdirCalls,  \* number of times destination has called fs.mkdirSync
  scriptOk,    \* backend/hybrid.py exists
  now,         \* Date.now()
  \* ---- page (index.js)
  originalImage, enhancedImage, isLoading, error, selectedFile,
  inflight,    \* requests whose fetch promise is pending in a handleSubmit
  called,      \* the handler the user triggered in the last step, with its argument
               \* (NoCall when the last step was not a user event)
  \* ---- page theme (index.js:12, 16-38)
  darkMode,    \* the darkMode state as last rendered
  localTheme,  \* localStorage 'theme' (NoTheme when nothing is stored)
  classDark,   \* document.documentElement has the class 'dark'
  prefersDark, \* window.matchMedia('(prefers-color-scheme: dark)').matches
  mounted,     \* the mount effects have run
  queued,      \* the setDarkMode calls not rendered yet, in order
  effectDue,   \* a render has changed darkMode and its effect has not run yet
  savedAtLoad, \* what localStorage 'theme' held when the page was loaded
  themes,      \* darkMode as rendered at load and after each toggleTheme, in order
  \* ---- enhancement pipeline (spec.md 3, 4)
  pixelBuffer, \* the input Pixel Buffer of the enhance call
  parameters,  \* its Filter Parameters
  stage,       \* position of the orchestrator
  proxy,       \* output of the Color-Space Projector
  coarse,      \* output of the Illumination Estimator
  refined,     \* output of the Structure-Preserving Refiner
  toned,       \* output of the Adaptive Tone Mapper
  enhanced,    \* output of the Detail Restorer
  ran,         \* the stages executed so far, in order
  result,      \* "none" | "ok" | "configurationError"
  calls        \* the enhance calls that have returned, in order, each with what it returned

srvVars == <<pc, origin, method, upfile, reqFile, pyErr, pythonRuns, path, resps,
             disk, uploadDir, mkdirCalls, scriptOk, now>>
pageVars == <<originalImage, enhancedImage, isLoading, error, selectedFile,
              inflight, called>>
pipeVars == <<pixelBuffer, parameters, stage, proxy, coarse, refined, toned, enhanced,
              ran, result, calls>>
themeVars == <<darkMode, localTheme, classDark, prefersDark, mounted, queued, effectDue,
               savedAtLoad, themes>>
vars == <<srvVars, pageVars, pipeVars, themeVars>>

Null == [kind |-> "null", id |-> 0]

NoCall == [op |-> "none", file |-> NoFile]

\* a step that is not a user event leaves the page alone
PageIdle ==
  /\ called' = NoCall
  /\ UNCHANGED <<originalImage, enhancedImage, isLoading, error, selectedFile, inflight>>
  /\ UNCHANGED themeVars

\* a step of the server
ServerStep == PageIdle /\ UNCHANGED pipeVars

\* a step of the page that sends nothing
PageStep == UNCHANGED srvVars /\ UNCHANGED pipeVars /\ UNCHANGED themeVars

\* a step of the pipeline
PipelineStep == PageIdle /\ UNCHANGED srvVars

(***************************************************************************)
(* Server: pages/api/enhance.js                                            *)
(***************************************************************************)
\* enhance.js:160
EnhanceFailed ==
  "Failed to enhance image. Please check if Python and required libraries are installed."

\* enhance.js:32
InvalidFileType == "Invalid file type. Only JPG, JPEG, and PNG files are allowed."

fileFilterAcceptsAll(f) == TRUE

\* enhance.js:27-34
fileFilter(f) == f.type \in allowedTypes

\* enhance.js:24-26
withinLimits(f) == f.size <= MaxFileSize

exists(d, p) == d[p] # Absent

Json(st, err, det) == [status |-> st, error |-> err, details |-> det, body |-> NoBody]
Image(buf) == [status |-> 200, error |-> "", details |-> "", body |-> buf]

Respond(r, rsp) == resps' = [resps EXCEPT ![r] = Append(@, rsp)]

Finish(r, branch) ==
  /\ pc' = [pc EXCEPT ![r] = "done"]
  /\ path' = [path EXCEPT ![r] = branch]

\* requests are numbered in the order they are sent
NextFree(r) == pc[r] = "new" /\ \A q \in Reqs : q < r => pc[q] # "new"

Send(r, who, m, f) ==
  /\ pc' = [pc EXCEPT ![r] = "received"]
  /\ origin' = [origin EXCEPT ![r] = who]
  /\ method' = [method EXCEPT ![r] = m]
  /\ upfile' = [upfile EXCEPT ![r] = f]
  /\ UNCHANGED <<reqFile, pyErr, pythonRuns, path, resps, disk, uploadDir, mkdirCalls, scriptOk, now>>

\* a client other than the page calls the API
DirectRequest(r, m, f) ==
  /\ NextFree(r)
  /\ Send(r, "direct", m, f)
  /\ ServerStep

\* enhance.js:49-52
MethodNotAllowed(r) ==
  /\ pc[r] = "received"
  /\ method[r] # "POST"
  /\ Respond(r, Json(405, "Method not allowed", ""))
  /\ Finish(r, "methodNotAllowed")
  /\ UNCHANGED <<origin, method, upfile, reqFile, pyErr, pythonRuns, disk, uploadDir, mkdirCalls,
                 scriptOk, now>>
  /\ ServerStep

\* enhance.js:27-34, 58-68, 165-172: multer calls back with an error (the
\* file filter refused the file, or the file is over the size limit, in which
\* case multer has removed what it had written), the promise rejects and the
\* outer catch answers
UploadError(r) ==
  /\ pc[r] = "received"
  /\ method[r] = "POST"
  /\ upfile[r] # NoFile
  /\ ~fileFilter(upfile[r]) \/ ~withinLimits(upfile[r])
  /\ uploadDir' = (uploadDir \/ fileFilter(upfile[r]))
  /\ mkdirCalls' = IF ~uploadDir /\ fileFilter(upfile[r]) THEN mkdirCalls + 1 ELSE mkdirCalls
  /\ Respond(r, Json(500, "Failed to process image",
                     IF ~fileFilter(upfile[r]) THEN InvalidFileType ELSE "File too large"))
  /\ Finish(r, "uploadError")
  /\ UNCHANGED <<origin, method, upfile, reqFile, pyErr, pythonRuns, disk, scriptOk, now>>
  /\ ServerStep

\* the no-file check answers 400 and, for want of a return, goes on to
\* req.file.path, which throws into the outer catch
NoFileUploadedNoReturn(r) ==
  /\ pc[r] = "received"
  /\ method[r] = "POST"
  /\ upfile[r] = NoFile
  /\ resps' = [resps EXCEPT ![r] = @ \o <<Json(400, "No image file uploaded", ""),
                                          Json(500, "Failed to process image", "")>>]
  /\ Finish(r, "noFile")
  /\ UNCHANGED <<origin, method, upfile, reqFile, pyErr, pythonRuns, disk, uploadDir, mkdirCalls,
                 scriptOk, now>>
  /\ ServerStep

\* enhance.js:58-73: no file in the form, req.file stays unset
NoFileUploaded(r) ==
  /\ pc[r] = "received"
  /\ method[r] = "POST"
  /\ upfile[r] = NoFile
  /\ Respond(r, Json(400, "No image file uploaded", ""))
  /\ Finish(r, "noFile")
  /\ UNCHANGED <<origin, method, upfile, reqFile, pyErr, pythonRuns, disk, uploadDir, mkdirCalls,
                 scriptOk, now>>
  /\ ServerStep

\* enhance.js:19-22
filename(f, t, rnd) == [t |-> t, rnd |-> rnd, ext |-> f.ext]

\* destination passes the directory on without creating it: when uploads/ is
\* missing the write fails with ENOENT and the outer catch answers
UploadStoreNoMkdir(r, t, rnd) ==
  /\ pc[r] = "received"
  /\ t >= now
  /\ now' = t
  /\ method[r] = "POST"
  /\ upfile[r] # NoFile
  /\ fileFilter(upfile[r])
  /\ withinLimits(upfile[r])
  /\ IF uploadDir
       THEN /\ reqFile' = [reqFile EXCEPT ![r] = filename(upfile[r], t, rnd)]
            /\ disk' = [disk EXCEPT ![inputPathOf(filename(upfile[r], t, rnd))] =
                                       UploadOf(upfile[r])]
            /\ pc' = [pc EXCEPT ![r] = "uploaded"]
            /\ UNCHANGED <<path, resps>>
       ELSE /\ Respond(r, Json(500, "Failed to process image", "ENOENT"))
            /\ Finish(r, "uploadError")
            /\ UNCHANGED <<reqFile, disk>>
  /\ UNCHANGED <<origin, method, upfile, pyErr, pythonRuns, uploadDir, mkdirCalls, scriptOk>>
  /\ ServerStep

\* enhance.js:12-22, 58-68: destination creates uploads/ when it is missing,
\* filename picks the name from Date.now() (which never goes back) and
\* Math.random(), multer writes the file
UploadStore(r, t, rnd) ==
  /\ pc[r] = "received"
  /\ t >= now
  /\ now' = t
  /\ method[r] = "POST"
  /\ upfile[r] # NoFile
  /\ fileFilter(upfile[r])
  /\ withinLimits(upfile[r])
  /\ uploadDir' = TRUE
  /\ mkdirCalls' = IF uploadDir THEN mkdirCalls ELSE mkdirCalls + 1
  /\ reqFile' = [reqFile EXCEPT ![r] = filename(upfile[r], t, rnd)]
  /\ disk' = [disk EXCEPT ![inputPathOf(filename(upfile[r], t, rnd))] = UploadOf(upfile[r])]
  /\ pc' = [pc EXCEPT ![r] = "uploaded"]
  /\ UNCHANGED <<origin, method, upfile, pyErr, pythonRuns, path, resps, scriptOk>>
  /\ ServerStep

\* enhance.js:88-92
InputMissing(r) ==
  /\ pc[r] = "uploaded"
  /\ ~exists(disk, inputPathOf(reqFile[r]))
  /\ Respond(r, Json(500, "Uploaded file not found", ""))
  /\ Finish(r, "inputMissing")
  /\ UNCHANGED <<origin, method, upfile, reqFile, pyErr, pythonRuns, disk, uploadDir, mkdirCalls,
                 scriptOk, now>>
  /\ ServerStep

\* enhance.js:96-102
ScriptMissing(r) ==
  /\ pc[r] = "uploaded"
  /\ exists(disk, inputPathOf(reqFile[r]))
  /\ ~scriptOk
  /\ Respond(r, Json(500, "Python script not found", ""))
  /\ Finish(r, "scriptMissing")
  /\ UNCHANGED <<origin, method, upfile, reqFile, pyErr, pythonRuns, disk, uploadDir, mkdirCalls,
                 scriptOk, now>>
  /\ ServerStep

\* the two existence checks are left out: the script is run on whatever
\* paths the request has
StartPythonUnchecked(r) ==
  /\ pc[r] = "uploaded"
  /\ pythonRuns' = [pythonRuns EXCEPT ![r] = @ + 1]
  /\ pc' = [pc EXCEPT ![r] = "python"]
  /\ UNCHANGED <<origin, method, upfile, reqFile, pyErr, path, resps, disk, uploadDir, mkdirCalls,
                 scriptOk, now>>
  /\ ServerStep

\* enhance.js:104-109
StartPython(r) ==
  /\ pc[r] = "uploaded"
  /\ exists(disk, inputPathOf(reqFile[r]))
  /\ scriptOk
  /\ pythonRuns' = [pythonRuns EXCEPT ![r] = @ + 1]
  /\ pc' = [pc EXCEPT ![r] = "python"]
  /\ UNCHANGED <<origin, method, upfile, reqFile, pyErr, path, resps, disk, uploadDir, mkdirCalls,
                 scriptOk, now>>
  /\ ServerStep

\* the child process python hybrid.py inputPath outputPath ends: with exit
\* code 0 or not, having written outputPath or not; it can only write an
\* enhanced image of an input it could read
PythonExit(r, ok, wrote) ==
  /\ pc[r] = "python"
  /\ wrote => exists(disk, inputPathOf(reqFile[r]))
  /\ pyErr' = [pyErr EXCEPT ![r] = ~ok]
  /\ disk' = IF wrote
               THEN [disk EXCEPT ![outputPathOf(reqFile[r])] =
                                     EnhancedOf(disk[inputPathOf(reqFile[r])])]
               ELSE disk
  /\ pc' = [pc EXCEPT ![r] = "exited"]
  /\ UNCHANGED <<origin, method, upfile, reqFile, pythonRuns, path, resps, uploadDir, mkdirCalls,
                 scriptOk, now>>
  /\ ServerStep

\* fs.unlinkSync(p): removes p, or throws (p is missing, or the delete is
\* refused) and leaves the disk as it is
unlinkThrows(d, p, refused) == ~exists(d, p) \/ refused
unlinkSync(d, p, refused) == IF unlinkThrows(d, p, refused) THEN d ELSE [d EXCEPT ![p] = Absent]

\* enhance.js:144-162: the inner catch deletes the input file when it exists
\* and answers 500
catchPythonError(r, d, refused, branch, det) ==
  /\ disk' = IF exists(d, inputPathOf(reqFile[r]))
               THEN unlinkSync(d, inputPathOf(reqFile[r]), refused)
               ELSE d
  /\ Respond(r, Json(500, EnhanceFailed, det))
  /\ Finish(r, branch)

\* the catch runs the script again instead of answering
PythonFailedRetry(r, refused) ==
  /\ pc[r] = "exited"
  /\ pyErr[r]
  /\ pythonRuns' = [pythonRuns EXCEPT ![r] = @ + 1]
  /\ pc' = [pc EXCEPT ![r] = "python"]
  /\ UNCHANGED <<origin, method, upfile, reqFile, pyErr, path, resps, disk, uploadDir, mkdirCalls,
                 scriptOk, now>>
  /\ ServerStep

\* enhance.js:104-109, 144-162: execFileAsync rejected
PythonFailed(r, refused) ==
  /\ pc[r] = "exited"
  /\ pyErr[r]
  /\ catchPythonError(r, disk, refused, "pythonError", "Command failed")
  /\ UNCHANGED <<origin, method, upfile, reqFile, pyErr, pythonRuns, uploadDir, mkdirCalls, scriptOk, now>>
  /\ ServerStep

\* enhance.js:116-120, 144-162
OutputMissing(r, refused) ==
  /\ pc[r] = "exited"
  /\ ~pyErr[r]
  /\ ~exists(disk, outputPathOf(reqFile[r]))
  /\ catchPythonError(r, disk, refused, "outputMissing", "Enhanced image was not created")
  /\ UNCHANGED <<origin, method, upfile, reqFile, pyErr, pythonRuns, uploadDir, mkdirCalls, scriptOk, now>>
  /\ ServerStep

\* enhance.js:125, 144-162: fs.readFileSync throws
ReadThrows(r, refused) ==
  /\ pc[r] = "exited"
  /\ ~pyErr[r]
  /\ exists(disk, outputPathOf(reqFile[r]))
  /\ catchPythonError(r, disk, refused, "readThrows", "read failed")
  /\ UNCHANGED <<origin, method, upfile, reqFile, pyErr, pythonRuns, uploadDir, mkdirCalls, scriptOk, now>>
  /\ ServerStep

\* enhance.js:128-135: the two deletes share one try block, so the second
\* is skipped when the first throws
cleanup(d, name, refusedIn, refusedOut) ==
  IF unlinkThrows(d, inputPathOf(name), refusedIn)
    THEN d
    ELSE unlinkSync(unlinkSync(d, inputPathOf(name), refusedIn), outputPathOf(name), refusedOut)

\* the output file is read after the cleanup: what is sent is what the
\* cleanup has left at outputPath
SuccessReadsAfterCleanup(r, refusedIn, refusedOut) ==
  /\ pc[r] = "exited"
  /\ ~pyErr[r]
  /\ exists(disk, outputPathOf(reqFile[r]))
  /\ disk' = cleanup(disk, reqFile[r], refusedIn, refusedOut)
  /\ Respond(r, Image(disk'[outputPathOf(reqFile[r])]))
  /\ Finish(r, "success")
  /\ UNCHANGED <<origin, method, upfile, reqFile, pyErr, pythonRuns, uploadDir, mkdirCalls, scriptOk, now>>
  /\ ServerStep

\* enhance.js:116-142: the output exists, it is read, the temporary files
\* are deleted and the buffer is sent
Success(r, refusedIn, refusedOut) ==
  /\ pc[r] = "exited"
  /\ ~pyErr[r]
  /\ exists(disk, outputPathOf(reqFile[r]))
  /\ disk' = cleanup(disk, reqFile[r], refusedIn, refusedOut)
  /\ Respond(r, Image(disk[outputPathOf(reqFile[r])]))
  /\ Finish(r, "success")
  /\ UNCHANGED <<origin, method, upfile, reqFile, pyErr, pythonRuns, uploadDir, mkdirCalls, scriptOk, now>>
  /\ ServerStep

\* enhance.js:128-142, 144-162: setHeader or send throws before anything
\* was written, after the cleanup has run
SendThrows(r, refusedIn, refusedOut, refused) ==
  /\ pc[r] = "exited"
  /\ ~pyErr[r]
  /\ exists(disk, outputPathOf(reqFile[r]))
  /\ catchPythonError(r, cleanup(disk, reqFile[r], refusedIn, refusedOut), refused,
                      "sendThrows", "send failed")
  /\ UNCHANGED <<origin, method, upfile, reqFile, pyErr, pythonRuns, uploadDir, mkdirCalls, scriptOk, now>>
  /\ ServerStep

ServerInit ==
  /\ pc = [r \in Reqs |-> "new"]
  /\ origin = [r \in Reqs |-> "none"]
  /\ method = [r \in Reqs |-> "POST"]
  /\ upfile = [r \in Reqs |-> NoFile]
  /\ reqFile = [r \in Reqs |-> NoName]
  /\ pyErr = [r \in Reqs |-> FALSE]
  /\ pythonRuns = [r \in Reqs |-> 0]
  /\ path = [r \in Reqs |-> ""]
  /\ resps = [r \in Reqs |-> <<>>]
  /\ disk = [p \in Paths |-> Absent]
  /\ uploadDir \in BOOLEAN
  /\ mkdirCalls = 0
  /\ scriptOk \in BOOLEAN
  /\ now = 0

HandlerNext ==
  \/ \E r \in Reqs : MethodNotAllowed(r)
  \/ \E r \in Reqs : UploadError(r)
  \/ \E r \in Reqs : NoFileUploaded(r)
  \/ \E r \in Reqs, t \in 0..MaxClock, rnd \in 0..(RandRange - 1) : UploadStore(r, t, rnd)
  \/ \E r \in Reqs : InputMissing(r)
  \/ \E r \in Reqs : ScriptMissing(r)
  \/ \E r \in Reqs : StartPython(r)
  \/ \E r \in Reqs, ok \in BOOLEAN, wrote \in BOOLEAN : PythonExit(r, ok, wrote)
  \/ \E r \in Reqs, refused \in BOOLEAN : PythonFailed(r, refused)
  \/ \E r \in Reqs, refused \in BOOLEAN : OutputMissing(r, refused)
  \/ \E r \in Reqs, refused \in BOOLEAN : ReadThrows(r, refused)
  \/ \E r \in Reqs, refusedIn \in BOOLEAN, refusedOut \in BOOLEAN : Success(r, refusedIn, refusedOut)
  \/ \E r \in Reqs, refusedIn \in BOOLEAN, refusedOut \in BOOLEAN, refused \in BOOLEAN :
        SendThrows(r, refusedIn, refusedOut, refused)

(***************************************************************************)
(* Page: pages/index.js                                                    *)
(***************************************************************************)
\* URL.createObjectURL(file)
createObjectURL(f) == [kind |-> "url", id |-> f.id]

Called(op, f) == called' = [op |-> op, file |-> f]

\* index.js:254: the upload section (file input and drop zone) is rendered
\* only while no image is selected
UploadSectionShown == originalImage = Null

\* the button is rendered without its disabled attribute
EnhanceButtonNeverDisabled == originalImage # Null

\* index.js:373, 639-642: the Enhance button is rendered with the preview
\* section and is disabled while loading
EnhanceButtonEnabled == originalImage # Null /\ ~isLoading

\* index.js:254, 347-368: the error block is part of the upload section
ErrorDisplayed == UploadSectionShown /\ error # ""

\* index.js:373, 689: the Reset button is rendered with the preview section
ResetButtonShown == originalImage # Null

\* handleFile selects the file before it validates it
HandleFileSelectsFirst(f) ==
  /\ UploadSectionShown
  /\ Called("handleFile", f)
  /\ IF f = NoFile
       THEN UNCHANGED <<error, selectedFile, originalImage, enhancedImage>>
       ELSE /\ selectedFile' = f
            /\ IF f.type \notin validTypes
                 THEN /\ error' = "Please select a valid image file (JPG, JPEG, or PNG)"
                      /\ UNCHANGED <<originalImage, enhancedImage>>
                 ELSE IF f.size > MaxFileSize
                   THEN /\ error' = "File size must be less than 10MB"
                        /\ UNCHANGED <<originalImage, enhancedImage>>
                   ELSE /\ error' = ""
                        /\ originalImage' = createObjectURL(f)
                        /\ enhancedImage' = Null
  /\ UNCHANGED <<isLoading, inflight>>
  /\ PageStep

\* index.js:45-65, called by handleFileChange (40-43) and handleDrop (77-85)
HandleFile(f) ==
  /\ UploadSectionShown
  /\ Called("handleFile", f)
  /\ IF f = NoFile
       THEN UNCHANGED <<error, selectedFile, originalImage, enhancedImage>>
       ELSE IF f.type \notin validTypes
         THEN /\ error' = "Please select a valid image file (JPG, JPEG, or PNG)"
              /\ UNCHANGED <<selectedFile, originalImage, enhancedImage>>
         ELSE IF f.size > MaxFileSize
           THEN /\ error' = "File size must be less than 10MB"
                /\ UNCHANGED <<selectedFile, originalImage, enhancedImage>>
           ELSE /\ error' = ""
                /\ selectedFile' = f
                /\ originalImage' = createObjectURL(f)
                /\ enhancedImage' = Null
  /\ UNCHANGED <<isLoading, inflight>>
  /\ PageStep

\* index.js:87-106: up to the await of fetch
HandleSubmit(r) ==
  /\ EnhanceButtonEnabled
  /\ NextFree(r)
  /\ Called("handleSubmit", NoFile)
  /\ IF originalImage = Null \/ selectedFile = NoFile
       THEN /\ error' = "Please select an image first"
            /\ UNCHANGED <<isLoading, inflight>>
            /\ PageStep
       ELSE /\ isLoading' = TRUE
            /\ error' = ""
            /\ inflight' = inflight \cup {r}
            /\ Send(r, "page", "POST", selectedFile)
            /\ UNCHANGED pipeVars
            /\ UNCHANGED themeVars
  /\ UNCHANGED <<originalImage, enhancedImage, selectedFile>>

\* index.js:108-123, 127-129: the response is ok
FetchOk(r) ==
  /\ r \in inflight
  /\ pc[r] = "done"
  /\ resps[r] # <<>>
  /\ resps[r][1].status = 200
  /\ enhancedImage' = resps[r][1].body
  /\ isLoading' = FALSE
  /\ inflight' = inflight \ {r}
  /\ called' = NoCall
  /\ UNCHANGED <<originalImage, error, selectedFile>>
  /\ PageStep

\* index.js:124-129
catchSubmit(r) ==
  /\ error' = "Failed to enhance image"
  /\ isLoading' = FALSE
  /\ inflight' = inflight \ {r}
  /\ called' = NoCall
  /\ UNCHANGED <<originalImage, enhancedImage, selectedFile>>
  /\ PageStep

\* index.js:111-117, 124-129: the response is not ok
FetchHttpError(r) ==
  /\ r \in inflight
  /\ pc[r] = "done"
  /\ resps[r] # <<>>
  /\ resps[r][1].status # 200
  /\ catchSubmit(r)

\* index.js:103-106, 124-129: fetch rejects (the network fails)
FetchReject(r) ==
  /\ r \in inflight
  /\ catchSubmit(r)

\* handleReset without its setSelectedFile(null)
HandleResetKeepsFile ==
  /\ ResetButtonShown
  /\ Called("handleReset", NoFile)
  /\ originalImage' = Null
  /\ enhancedImage' = Null
  /\ error' = ""
  /\ UNCHANGED <<selectedFile, isLoading, inflight>>
  /\ PageStep

\* index.js:132-140
HandleReset ==
  /\ ResetButtonShown
  /\ Called("handleReset", NoFile)
  /\ originalImage' = Null
  /\ enhancedImage' = Null
  /\ selectedFile' = NoFile
  /\ error' = ""
  /\ UNCHANGED <<isLoading, inflight>>
  /\ PageStep

PageInit ==
  /\ originalImage = Null
  /\ enhancedImage = Null
  /\ isLoading = FALSE
  /\ error = ""
  /\ selectedFile = NoFile
  /\ inflight = {}
  /\ called = NoCall

PageNext ==
  \/ \E f \in UserFiles \cup {NoFile} : HandleFile(f)
  \/ \E r \in Reqs : HandleSubmit(r)
  \/ \E r \in Reqs : FetchOk(r)
  \/ \E r \in Reqs : FetchHttpError(r)
  \/ \E r \in Reqs : FetchReject(r)
  \/ HandleReset

(***************************************************************************)
(* Page theme: pages/index.js 12, 16-38                                    *)
(***************************************************************************)
NoTheme == "none"

\* index.js:29, 32: the values the page stores
ThemeOf(dark) == IF dark THEN "dark" ELSE "light"

\* a step of the theme leaves the images, the server and the pipeline alone
ThemeStep ==
  /\ UNCHANGED <<originalImage, enhancedImage, isLoading, error, selectedFile, inflight>>
  /\ UNCHANGED srvVars
  /\ UNCHANGED pipeVars
  /\ UNCHANGED <<prefersDark, savedAtLoad>>

\* index.js:26-34: the effect of [darkMode], run for the value dark
persist(dark) ==
  /\ classDark' = dark
  /\ localTheme' = ThemeOf(dark)

\* the two effects declared in the other order: the theme of the first
\* render is stored before the saved theme is read
MountEffectsPersistFirst ==
  /\ ~mounted
  /\ mounted' = TRUE
  /\ persist(darkMode)
  /\ queued' = Append(queued, localTheme' = "dark")
  /\ effectDue' = FALSE
  /\ called' = NoCall
  /\ UNCHANGED <<darkMode, themes>>
  /\ ThemeStep

\* index.js:17-24 and 26-34: after the first render (darkMode = false) both
\* effects run, in the order they are declared: the first reads the saved
\* theme (or the system preference) and calls setDarkMode, the second
\* stores the theme of the first render
MountEffects ==
  /\ ~mounted
  /\ mounted' = TRUE
  /\ queued' = Append(queued, IF localTheme # NoTheme THEN localTheme = "dark" ELSE prefersDark)
  /\ persist(darkMode)
  /\ effectDue' = FALSE
  /\ called' = NoCall
  /\ UNCHANGED <<darkMode, themes>>
  /\ ThemeStep

\* the value of darkMode after the queued setDarkMode calls
Rendered == IF queued = <<>> THEN darkMode ELSE queued[Len(queued)]

\* React renders the queued setDarkMode calls; the effect of [darkMode] is
\* due when the rendered value differs from the one rendered before
Render ==
  /\ mounted
  /\ queued # <<>>
  /\ darkMode' = Rendered
  /\ queued' = <<>>
  /\ effectDue' = (effectDue \/ Rendered # darkMode)
  /\ themes' = [themes EXCEPT ![Len(themes)] = Rendered]
  /\ called' = NoCall
  /\ UNCHANGED <<localTheme, classDark, mounted>>
  /\ ThemeStep

\* index.js:26-34: the effect of [darkMode] runs after a render that
\* changed darkMode
PersistEffect ==
  /\ mounted
  /\ effectDue
  /\ queued = <<>>
  /\ persist(darkMode)
  /\ effectDue' = FALSE
  /\ called' = NoCall
  /\ UNCHANGED <<darkMode, mounted, queued, themes>>
  /\ ThemeStep

\* index.js:36-38, 207: a click on the theme toggle calls
\* setDarkMode(!darkMode) with the darkMode of the last render; React runs
\* the effects that are still due, then renders the queued calls and this
\* one before the next event is handled
toggleTheme ==
  /\ mounted
  /\ Len(themes) <= MaxToggles
  /\ Called("toggleTheme", NoFile)
  /\ IF effectDue THEN persist(darkMode) ELSE UNCHANGED <<localTheme, classDark>>
  /\ darkMode' = ~darkMode
  /\ queued' = <<>>
  /\ effectDue' = TRUE
  /\ themes' = Append(themes, ~darkMode)
  /\ UNCHANGED mounted
  /\ ThemeStep

\* the theme of a page on which nobody touches the theme: mounted with the
\* light theme stored
ThemeIdle ==
  /\ darkMode = FALSE
  /\ localTheme = "light"
  /\ classDark = FALSE
  /\ prefersDark = FALSE
  /\ mounted = TRUE
  /\ queued = <<>>
  /\ effectDue = FALSE
  /\ savedAtLoad = "light"
  /\ themes = <<FALSE>>

\* index.js:12: the page has been loaded and rendered once, with
\* darkMode = false; localStorage holds nothing or what the page stored on
\* an earlier visit
ThemeInit ==
  /\ darkMode = FALSE
  /\ localTheme \in {NoTheme, "light", "dark"}
  /\ classDark \in BOOLEAN
  /\ prefersDark \in BOOLEAN
  /\ mounted = FALSE
  /\ queued = <<>>
  /\ effectDue = FALSE
  /\ savedAtLoad = localTheme
  /\ themes = <<FALSE>>

ThemeNext ==
  \/ MountEffects
  \/ Render
  \/ PersistEffect
  \/ toggleTheme

(***************************************************************************)
(* Enhancement pipeline (spec.md 3, 4): samples are fixed-point numbers,    *)
(* Scale stands for 1.0                                                    *)
(***************************************************************************)
Scale == 25       \* the sample value that stands for 1.0
GammaDen == 5     \* gamma is a number of GammaDen-ths
Percent == 100    \* alpha is a number of hundredths
Width == 3
Height == 1
MaxCalls == 3     \* calls of enhance made one after the other by one caller

NumPixels == Width * Height
PixelIds == 1..NumPixels
Channels == 1..3

\* what an arithmetic operation yields when its result is no finite number
NonFinite == 0 - 1000000

NoBuffer == <<>>

\* gamma left out of the parameters: the tone mapper computes it
NoGamma == 0

\* spec.md 3: alpha 0.15, beta 0.08, gamma 0.8
DefaultParameters ==
  [alpha |-> 15, beta |-> 2, gamma |-> 4, guidedRadius |-> 1, guidedEpsilon |-> 1,
   sharpenAmount |-> 12, sharpenRadius |-> 1, strategy |-> "max"]

\* the parameter records an enhance call is tried with: the defaults, and
\* the defaults with one option changed (to a valid or to an invalid value)
ParameterSets ==
  {DefaultParameters}
    \cup {[DefaultParameters EXCEPT !.alpha = v] : v \in {0 - 5, 0, 1, 100}}
    \cup {[DefaultParameters EXCEPT !.beta = v] : v \in {0 - 1, 0, 1, 12, Scale, Scale + 1}}
    \cup {[DefaultParameters EXCEPT !.gamma = v] : v \in {NoGamma, 2, GammaDen}}
    \cup {[DefaultParameters EXCEPT !.guidedRadius = v] : v \in {0, 2}}
    \cup {[DefaultParameters EXCEPT !.guidedEpsilon = v] : v \in {0 - 1, 0, 10}}
    \cup {[DefaultParameters EXCEPT !.sharpenAmount = v] : v \in {0, Scale, 3 * Scale}}
    \cup {[DefaultParameters EXCEPT !.sharpenRadius = v] : v \in {0 - 1, 0, 2}}
    \cup {[DefaultParameters EXCEPT !.strategy = v] : v \in {"average"}}
    \cup {[DefaultParameters EXCEPT !.beta = b, !.alpha = a] : b \in {0 - 1, 0, 12}, a \in {1, 60}}
    \cup {[DefaultParameters EXCEPT !.sharpenAmount = 0, !.sharpenRadius = v] : v \in {0, 2}}

\* the pixels an input buffer is made of: black, white, a dark noisy pixel,
\* a saturated pixel, a mid grey
Colours ==
  { <<0, 0, 0>>, <<Scale, Scale, Scale>>, <<1, 2, 0>>, <<Scale, 0, 3>>, <<12, 12, 12>> }

Col(i) == ((i - 1) % Width) + 1
Row(i) == ((i - 1) \div Width) + 1
Abs(x) == IF x < 0 THEN 0 - x ELSE x

\* spec.md 4.3: the window of side 2*radius+1 centred at pixel i, clipped to
\* the buffer
Window(i, radius) ==
  {j \in PixelIds : Abs(Col(j) - Col(i)) <= radius /\ Abs(Row(j) - Row(i)) <= radius}

RECURSIVE SumOn(_, _)
SumOn(f, S) ==
  IF S = {} THEN 0
  ELSE LET j == CHOOSE k \in S : TRUE IN f[j] + SumOn(f, S \ {j})

Finite(f, S) == \A j \in S : f[j] # NonFinite

Max2(a, b) == IF a >= b THEN a ELSE b

\* the upper bound is taken as exclusive: a value at the bound is pulled
\* below it
ClampExclusive(x, lo, hi) ==
  IF x = NonFinite THEN NonFinite
  ELSE IF x < lo THEN lo
  ELSE IF x >= hi THEN hi - 1
  ELSE x

\* spec.md 3, 8: clamp to [lo, hi]; no finite number comes out of a
\* non-finite one
Clamp(x, lo, hi) ==
  IF x = NonFinite THEN NonFinite
  ELSE IF x < lo THEN lo
  ELSE IF x > hi THEN hi
  ELSE x

Div(a, b) ==
  IF a = NonFinite \/ b = NonFinite \/ b = 0 THEN NonFinite ELSE a \div b

RECURSIVE IntPow(_, _)
IntPow(x, n) == IF n = 0 THEN 1 ELSE x * IntPow(x, n - 1)

\* x ^ (g / GammaDen) in fixed point, rounded down: the largest y with
\* (y/Scale)^GammaDen <= (x/Scale)^g
Pow(x, g) ==
  IF x = NonFinite THEN NonFinite
  ELSE IF x < 0 THEN NonFinite
  ELSE LET bound == IntPow(Scale, GammaDen - g) * IntPow(x, g)
           ys == {y \in 0..Max2(x, Scale) : IntPow(y, GammaDen) <= bound}
       IN CHOOSE y \in ys : \A z \in ys : z <= y

\* spec.md 4.1: per-pixel maximum across channels, or channel average
ColorSpaceProjector(buf, strategy) ==
  [i \in PixelIds |->
     IF strategy = "max"
       THEN Max2(buf[i][1], Max2(buf[i][2], buf[i][3]))
       ELSE (buf[i][1] + buf[i][2] + buf[i][3]) \div 3]

IlluminationEstimatorNoClamp(prx, alpha, beta) ==
  [i \in PixelIds |-> prx[i] + (alpha * (Scale - prx[i]) + Percent - 1) \div Percent]

\* spec.md 4.2: the proxy is the initial estimate, alpha scales an
\* adjustment that pulls dark pixels up more than lit ones (rounded up, so
\* that a positive adjustment stays positive), and the result is clamped to
\* [beta, 1]
IlluminationEstimator(prx, alpha, beta) ==
  [i \in PixelIds |->
     Clamp(prx[i] + (alpha * (Scale - prx[i]) + Percent - 1) \div Percent, beta, Scale)]

\* spec.md 4.3: the coefficients a, b of window k (covariance of guidance
\* and map over variance of guidance plus epsilon)
CoefA(map, guide, k, radius, eps) ==
  LET w == Window(k, radius)
      n == Cardinality(w)
      sI == SumOn(guide, w)
      sP == SumOn(map, w)
      sIP == SumOn([j \in PixelIds |-> guide[j] * map[j]], w)
      sII == SumOn([j \in PixelIds |-> guide[j] * guide[j]], w)
  IN IF ~Finite(map, w) THEN NonFinite
     ELSE Div(Scale * (n * sIP - sI * sP), (n * sII - sI * sI) + eps * Scale * n * n)

CoefB(map, guide, k, radius, eps) ==
  LET w == Window(k, radius)
      n == Cardinality(w)
      a == CoefA(map, guide, k, radius, eps)
  IN IF a = NonFinite THEN NonFinite
     ELSE (SumOn(map, w) \div n) - (a * (SumOn(guide, w) \div n)) \div Scale

\* spec.md 4.3: box-filter average of the coefficients of the windows that
\* cover the pixel, applied to the guidance
GuidedFilter(map, guide, radius, eps) ==
  LET as == [k \in PixelIds |-> CoefA(map, guide, k, radius, eps)]
      bs == [k \in PixelIds |-> CoefB(map, guide, k, radius, eps)]
  IN [i \in PixelIds |->
        LET w == Window(i, radius)
            n == Cardinality(w)
        IN IF ~Finite(as, w) \/ ~Finite(bs, w) THEN NonFinite
           ELSE ((SumOn(as, w) \div n) * guide[i]) \div Scale + SumOn(bs, w) \div n]

StructurePreservingRefinerNoClamp(map, guide, radius, eps, beta) ==
  GuidedFilter(map, guide, radius, eps)

\* spec.md 4.3, and spec.md 3, 4.4, 8: the refined map is an Illumination
\* Map, its values are kept in [beta, 1]
StructurePreservingRefiner(map, guide, radius, eps, beta) ==
  [i \in PixelIds |-> Clamp(GuidedFilter(map, guide, radius, eps)[i], beta, Scale)]

\* spec.md 4.4: low mean illumination gives a small exponent, high mean
\* illumination an exponent close to 1, within [0.4, 1.0]
AdaptiveGamma(map) ==
  IF ~Finite(map, PixelIds) THEN GammaDen
  ELSE Clamp(2 + ((SumOn(map, PixelIds) \div NumPixels) * (GammaDen - 2)) \div Scale,
             2, GammaDen)

\* the exponent is kept in a process-wide setting that each call overwrites
\* only after it has used it: a call runs with the exponent of the call before
EffectiveGammaOfPreviousCall(map, gamma) ==
  IF calls # <<>> /\ calls[Len(calls)].parameters.gamma # NoGamma
    THEN calls[Len(calls)].parameters.gamma
    ELSE IF gamma = NoGamma THEN AdaptiveGamma(map) ELSE gamma

EffectiveGamma(map, gamma) == IF gamma = NoGamma THEN AdaptiveGamma(map) ELSE gamma

AdaptiveToneMapperNoClamp(buf, map, gamma) ==
  [i \in PixelIds |->
     [c \in Channels |->
        Div(buf[i][c] * Scale, Pow(map[i], EffectiveGamma(map, gamma)))]]

\* the channels are multiplied by illumination^gamma instead of divided
AdaptiveToneMapperMultiplies(buf, map, gamma) ==
  [i \in PixelIds |->
     [c \in Channels |->
        Clamp((buf[i][c] * Pow(map[i], EffectiveGamma(map, gamma))) \div Scale, 0, Scale)]]

\* the channels are divided by the brightness of the pixel itself (its largest
\* channel) instead of the floored Illumination Map
AdaptiveToneMapperByBrightness(buf, map, gamma) ==
  [i \in PixelIds |->
     [c \in Channels |->
        Clamp(Div(buf[i][c] * Scale,
                  Pow(Max2(buf[i][1], Max2(buf[i][2], buf[i][3])), EffectiveGamma(map, gamma))),
              0, Scale)]]

\* spec.md 4.4: output[c] = input[c] / illumination^gamma, clamped to [0, 1]
AdaptiveToneMapper(buf, map, gamma) ==
  [i \in PixelIds |->
     [c \in Channels |->
        Clamp(Div(buf[i][c] * Scale, Pow(map[i], EffectiveGamma(map, gamma))), 0, Scale)]]

\* spec.md 4.5: box blur of radius sharpenRadius
Blur(buf, c, i, radius) ==
  LET w == Window(i, radius)
      ch == [j \in PixelIds |-> buf[j][c]]
  IN IF ~Finite(ch, w) THEN NonFinite ELSE Div(SumOn(ch, w), Cardinality(w))

\* the residual is added back to the blurred copy instead of the tone-mapped
\* buffer
DetailRestorerFromBlurred(buf, amount, radius) ==
  [i \in PixelIds |->
     [c \in Channels |->
        IF Blur(buf, c, i, radius) = NonFinite THEN NonFinite
        ELSE Clamp(Blur(buf, c, i, radius)
                     + (amount * (buf[i][c] - Blur(buf, c, i, radius))) \div Scale,
                   0, Scale)]]

\* spec.md 4.5: unsharp masking, then clamp to [0, 1]
DetailRestorer(buf, amount, radius) ==
  [i \in PixelIds |->
     [c \in Channels |->
        IF Blur(buf, c, i, radius) = NonFinite THEN NonFinite
        ELSE Clamp(buf[i][c] + (amount * (buf[i][c] - Blur(buf, c, i, radius))) \div Scale,
                   0, Scale)]]

ValidParametersNoAlpha(prm) ==
  /\ prm.beta < Scale
  /\ prm.guidedEpsilon > 0
  /\ prm.sharpenRadius >= 0

ValidParametersNoEpsilon(prm) ==
  /\ prm.beta < Scale
  /\ prm.alpha > 0
  /\ prm.sharpenRadius >= 0

\* spec.md 4.6: beta < 1, alpha > 0, guidedEpsilon > 0, sharpenRadius >= 0
ValidParameters(prm) ==
  /\ prm.beta < Scale
  /\ prm.alpha > 0
  /\ prm.guidedEpsilon > 0
  /\ prm.sharpenRadius >= 0

\* what a call of enhance returned: the output buffer, or a configuration error
Returned(buf, prm, res, out) ==
  [pixelBuffer |-> buf, parameters |-> prm, result |-> res, enhanced |-> out]

\* spec.md 4.6: the orchestrator validates the configuration before running
Validate ==
  /\ stage = "start"
  /\ IF ValidParameters(parameters)
       THEN stage' = "validated" /\ result' = result /\ calls' = calls
       ELSE /\ stage' = "failed"
            /\ result' = "configurationError"
            /\ calls' = Append(calls, Returned(pixelBuffer, parameters, "configurationError",
                                                NoBuffer))
  /\ UNCHANGED <<pixelBuffer, parameters, proxy, coarse, refined, toned, enhanced, ran>>
  /\ PipelineStep

Project ==
  /\ stage = "validated"
  /\ proxy' = ColorSpaceProjector(pixelBuffer, parameters.strategy)
  /\ ran' = Append(ran, "ColorSpaceProjector")
  /\ stage' = "projected"
  /\ UNCHANGED <<pixelBuffer, parameters, coarse, refined, toned, enhanced, result, calls>>
  /\ PipelineStep

Estimate ==
  /\ stage = "projected"
  /\ coarse' = IlluminationEstimator(proxy, parameters.alpha, parameters.beta)
  /\ ran' = Append(ran, "IlluminationEstimator")
  /\ stage' = "estimated"
  /\ UNCHANGED <<pixelBuffer, parameters, proxy, refined, toned, enhanced, result, calls>>
  /\ PipelineStep

\* the refiner is run a second time over its own output before the
\* orchestrator moves on
RefineTwice ==
  /\ stage = "estimated"
  /\ refined' = StructurePreservingRefiner(IF refined = NoBuffer THEN coarse ELSE refined, proxy,
                                           parameters.guidedRadius, parameters.guidedEpsilon,
                                           parameters.beta)
  /\ ran' = Append(ran, "StructurePreservingRefiner")
  /\ stage' = IF refined = NoBuffer THEN "estimated" ELSE "refined"
  /\ UNCHANGED <<pixelBuffer, parameters, proxy, coarse, toned, enhanced, result, calls>>
  /\ PipelineStep

Refine ==
  /\ stage = "estimated"
  /\ refined' = StructurePreservingRefiner(coarse, proxy, parameters.guidedRadius,
                                           parameters.guidedEpsilon, parameters.beta)
  /\ ran' = Append(ran, "StructurePreservingRefiner")
  /\ stage' = "refined"
  /\ UNCHANGED <<pixelBuffer, parameters, proxy, coarse, toned, enhanced, result, calls>>
  /\ PipelineStep

\* the tone mapper divides the input buffer in place
ToneMapInPlace ==
  /\ stage = "refined"
  /\ toned' = AdaptiveToneMapper(pixelBuffer, refined, parameters.gamma)
  /\ pixelBuffer' = toned'
  /\ ran' = Append(ran, "AdaptiveToneMapper")
  /\ stage' = "toned"
  /\ UNCHANGED <<parameters, proxy, coarse, refined, enhanced, result, calls>>
  /\ PipelineStep

ToneMap ==
  /\ stage = "refined"
  /\ toned' = AdaptiveToneMapper(pixelBuffer, refined, parameters.gamma)
  /\ ran' = Append(ran, "AdaptiveToneMapper")
  /\ stage' = "toned"
  /\ UNCHANGED <<pixelBuffer, parameters, proxy, coarse, refined, enhanced, result, calls>>
  /\ PipelineStep

Restore ==
  /\ stage = "toned"
  /\ enhanced' = DetailRestorer(toned, parameters.sharpenAmount, parameters.sharpenRadius)
  /\ ran' = Append(ran, "DetailRestorer")
  /\ stage' = "done"
  /\ result' = "ok"
  /\ calls' = Append(calls, Returned(pixelBuffer, parameters, "ok", enhanced'))
  /\ UNCHANGED <<pixelBuffer, parameters, proxy, coarse, refined, toned>>
  /\ PipelineStep

\* no enhance call is running
PipelineIdle ==
  /\ pixelBuffer = NoBuffer
  /\ parameters = DefaultParameters
  /\ stage = "idle"
  /\ proxy = NoBuffer
  /\ coarse = NoBuffer
  /\ refined = NoBuffer
  /\ toned = NoBuffer
  /\ enhanced = NoBuffer
  /\ ran = <<>>
  /\ result = "none"
  /\ calls = <<>>

\* enhance(pixelBuffer, parameters) is called
PipelineInit ==
  /\ pixelBuffer \in [PixelIds -> Colours]
  /\ parameters \in ParameterSets
  /\ stage = "start"
  /\ proxy = NoBuffer
  /\ coarse = NoBuffer
  /\ refined = NoBuffer
  /\ toned = NoBuffer
  /\ enhanced = NoBuffer
  /\ ran = <<>>
  /\ result = "none"
  /\ calls = <<>>

PipelineNext ==
  \/ Validate
  \/ Project
  \/ Estimate
  \/ Refine
  \/ ToneMap
  \/ Restore

(***************************************************************************)
(* Specifications                                                          *)
(***************************************************************************)
ServerNext ==
  \/ \E r \in Reqs, c \in ClientRequests : DirectRequest(r, c.method, c.file)
  \/ HandlerNext

DirectRequests == {q \in Reqs : origin[q] = "direct"}

Init == ServerInit /\ PageInit /\ PipelineIdle /\ ThemeIdle

\* the page in use, with the server behind it and other clients calling the API
Next ==
  \/ PageNext
  \/ HandlerNext
  \/ \E r \in Reqs, c \in ClientRequests :
        Cardinality(DirectRequests) < MaxDirect /\ DirectRequest(r, c.method, c.file)

Spec == Init /\ [][Next]_vars

\* the server alone, every request sent by some client
ServerSpec == Init /\ [][ServerNext]_vars

\* one enhance call
EnhanceInit ==
  /\ ServerInit /\ uploadDir /\ scriptOk
  /\ PageInit
  /\ PipelineInit
  /\ ThemeIdle

PipelineSpec == EnhanceInit /\ [][PipelineNext]_vars

\* the buffers and parameter records a caller that calls enhance repeatedly
\* passes: a black image, a dark noisy image with a saturated pixel, a mid
\* grey image; the defaults, another exponent, no exponent, an invalid alpha
CallBuffers ==
  { [i \in PixelIds |-> <<0, 0, 0>>],
    [i \in PixelIds |-> IF i = 1 THEN <<Scale, 0, 3>> ELSE <<1, 2, 0>>],
    [i \in PixelIds |-> <<12, 12, 12>>] }

CallParameters ==
  { DefaultParameters,
    [DefaultParameters EXCEPT !.gamma = 2],
    [DefaultParameters EXCEPT !.gamma = NoGamma],
    [DefaultParameters EXCEPT !.alpha = 0] }

\* the caller calls enhance(buf, prm) again after the previous call has
\* returned: the new call has its own buffers, none of them produced yet
Call(buf, prm) ==
  /\ stage \in {"done", "failed"}
  /\ Len(calls) < MaxCalls
  /\ pixelBuffer' = buf
  /\ parameters' = prm
  /\ stage' = "start"
  /\ proxy' = NoBuffer
  /\ coarse' = NoBuffer
  /\ refined' = NoBuffer
  /\ toned' = NoBuffer
  /\ enhanced' = NoBuffer
  /\ ran' = <<>>
  /\ result' = "none"
  /\ calls' = calls
  /\ PipelineStep

CallsInit ==
  /\ EnhanceInit
  /\ pixelBuffer \in CallBuffers
  /\ parameters \in CallParameters

CallsNext ==
  \/ PipelineNext
  \/ \E buf \in CallBuffers, prm \in CallParameters : Call(buf, prm)

\* a caller that calls enhance up to MaxCalls times, one call after the other
CallsSpec == CallsInit /\ [][CallsNext]_vars

\* the page is loaded and the user clicks the theme toggle, up to MaxToggles
\* times
LoadInit ==
  /\ ServerInit /\ uploadDir /\ scriptOk
  /\ PageInit
  /\ PipelineIdle
  /\ ThemeInit

ThemeSpec == LoadInit /\ [][ThemeNext]_vars

(***************************************************************************)
(* Properties of the handler and of the page                               *)
(***************************************************************************)
Done(r) == pc[r] = "done"

Stored(r) == reqFile[r] # NoName

\* C1: for every request in which an upload was stored on disk, once the
\* handler has sent its response neither the uploaded input file nor the
\* 'enhanced-' output file of that request remains in the uploads directory.
C1_TemporaryFilesCleanedUp ==
  \A r \in Reqs :
    (Done(r) /\ Stored(r)) =>
       /\ ~exists(disk, inputPathOf(reqFile[r]))
       /\ ~exists(disk, outputPathOf(reqFile[r]))

\* C2: on every path through handler exactly one HTTP response is sent, and
\* it is an error status whenever any step failed.
C2_SingleTerminalResponse ==
  \A r \in Reqs :
    /\ ~Done(r) => Len(resps[r]) = 0
    /\ Done(r) =>
         /\ Len(resps[r]) = 1
         /\ path[r] # "success" => resps[r][1].status >= 400
         /\ resps[r][1].status < 400 =>
              /\ method[r] = "POST"
              /\ upfile[r] # NoFile
              /\ upfile[r].type \in {"image/jpeg", "image/jpg", "image/png"}
              /\ pythonRuns[r] = 1
              /\ ~pyErr[r]

\* every way the handler can end has been taken by some request that got
\* one response: here the send that threw, answered by the inner catch
C2_Witness ==
  \E r \in Reqs :
    /\ Done(r)
    /\ path[r] = "sendThrows"
    /\ resps[r] = <<Json(500, EnhanceFailed, "send failed")>>

\* requests r1 and r2 are handled at the same time, each with its upload
\* on disk
Concurrent(r1, r2) ==
  /\ r1 # r2
  /\ Stored(r1) /\ ~Done(r1)
  /\ Stored(r2) /\ ~Done(r2)

\* C3: for any two requests handled concurrently, the uploaded-file path and
\* the output-file path of one are both different from those of the other.
C3_RequestsUseDistinctFiles ==
  \A r1 \in Reqs : \A r2 \in Reqs :
    Concurrent(r1, r2) =>
      {inputPathOf(reqFile[r1]), outputPathOf(reqFile[r1])}
        \cap {inputPathOf(reqFile[r2]), outputPathOf(reqFile[r2])} = {}

\* C4: the Python script is run only for uploads whose MIME type is
\* image/jpeg, image/jpg or image/png; for any other type handleFile sets
\* the 'valid image file' error and selects nothing, and the server ends the
\* request with the 'Invalid file type' error without running the script.
C4_OnlyJpgPngEnhanced ==
  /\ [](\A r \in Reqs :
          /\ pythonRuns[r] > 0 => upfile[r].type \in {"image/jpeg", "image/jpg", "image/png"}
          /\ (/\ Done(r)
              /\ method[r] = "POST"
              /\ upfile[r] # NoFile
              /\ upfile[r].type \notin {"image/jpeg", "image/jpg", "image/png"}) =>
               /\ resps[r] = <<Json(500, "Failed to process image", InvalidFileType)>>
               /\ pythonRuns[r] = 0
               /\ ~Stored(r))
  /\ [][(/\ called'.op = "handleFile"
         /\ called'.file # NoFile
         /\ called'.file.type \notin {"image/jpeg", "image/jpg", "image/png"}) =>
          /\ error' = "Please select a valid image file (JPG, JPEG, or PNG)"
          /\ selectedFile' = selectedFile
          /\ originalImage' = originalImage
          /\ enhancedImage' = enhancedImage]_vars

\* a GIF has been refused by the server, and the user has just picked a GIF
C4_Witness ==
  /\ \E r \in Reqs :
       /\ Done(r)
       /\ upfile[r].type = "image/gif"
       /\ resps[r][1].status = 500
  /\ called.op = "handleFile"
  /\ called.file.type = "image/gif"
  /\ error = "Please select a valid image file (JPG, JPEG, or PNG)"
  /\ selectedFile = NoFile

PageRequests == {r \in Reqs : origin[r] = "page"}

\* C8: for each request the handler starts the Python process at most once,
\* each call of handleSubmit issues exactly one fetch, and no request is
\* issued by the page outside a call of handleSubmit.
C8_NoInternalRetry ==
  /\ [](\A r \in Reqs : pythonRuns[r] <= 1)
  /\ [][/\ called'.op = "handleSubmit" =>
             \E r \in Reqs : r \notin PageRequests /\ PageRequests' = PageRequests \cup {r}
        /\ called'.op # "handleSubmit" => PageRequests' = PageRequests]_vars

\* the one request of the page has failed in the Python process, its fetch
\* has settled, and nothing was started again
C8_Witness ==
  /\ \E r \in Reqs :
       /\ PageRequests = {r}
       /\ Done(r)
       /\ pyErr[r]
       /\ pythonRuns[r] = 1
       /\ r \notin inflight
  /\ error = "Failed to enhance image"
  /\ ~isLoading

\* C9: handleFile accepts a file only if its size is strictly less than
\* 10*1024*1024 bytes; for any file of that size or larger it sets the error
\* 'File size must be less than 10MB' and does not select the file.
C9_SizeStrictlyBelow10MB ==
  /\ selectedFile # NoFile => selectedFile.size < 10 * 1024 * 1024
  /\ (/\ called.op = "handleFile"
      /\ called.file # NoFile
      /\ called.file.type \in {"image/jpeg", "image/jpg", "image/png"}
      /\ called.file.size >= 10 * 1024 * 1024) =>
       /\ error = "File size must be less than 10MB"
       /\ selectedFile # called.file

\* C18: when the Python process exits with an error, or exits without having
\* created the output file, the handler responds with status 500 and the
\* error 'Failed to enhance image...', never with 200, and the uploaded input
\* file has been deleted if it still existed.
C18_PythonFailureAnswers500 ==
  [][\A r \in Reqs :
       (/\ pc[r] = "exited"
        /\ pc'[r] = "done"
        /\ pyErr[r] \/ ~exists(disk, outputPathOf(reqFile[r]))) =>
         /\ Len(resps'[r]) = 1
         /\ resps'[r][1].status = 500
         /\ resps'[r][1].error = EnhanceFailed
         /\ ~exists(disk', inputPathOf(reqFile[r]))]_vars

\* C19: from any reachable page state, including while a request is in
\* flight, after handleReset originalImage, enhancedImage and selectedFile
\* are null, error is empty and isLoading is false.
C19_ResetRestoresInitialState ==
  [][called'.op = "handleReset" =>
       /\ originalImage' = Null
       /\ enhancedImage' = Null
       /\ selectedFile' = NoFile
       /\ error' = ""
       /\ ~isLoading']_vars

\* the form of request r holds a file that multer accepts
Acceptable(r) ==
  /\ method[r] = "POST"
  /\ upfile[r] # NoFile
  /\ upfile[r].type \in {"image/jpeg", "image/jpg", "image/png"}
  /\ upfile[r].size <= 10 * 1024 * 1024

InRange(buf, lo, hi) ==
  \A i \in PixelIds : \A c \in Channels : buf[i][c] # NonFinite /\ lo <= buf[i][c] /\ buf[i][c] <= hi

MapInRange(map, lo, hi) ==
  \A i \in PixelIds : map[i] # NonFinite /\ lo <= map[i] /\ map[i] <= hi

\* C5: every channel value of the buffer produced by the Adaptive Tone
\* Mapper, and of the buffer produced by the Detail Restorer, lies in [0, 1].
C5_OutputsInUnitRange ==
  /\ toned # NoBuffer => InRange(toned, 0, Scale)
  /\ enhanced # NoBuffer => InRange(enhanced, 0, Scale)

\* an enhance call whose sharpening overshoots before the clamp has
\* produced both buffers
C5_Witness ==
  /\ stage = "done"
  /\ parameters.sharpenAmount = 3 * Scale
  /\ \E i \in PixelIds : \E c \in Channels :
        /\ toned[i][c] + (parameters.sharpenAmount
                            * (toned[i][c] - Blur(toned, c, i, parameters.sharpenRadius))) \div Scale
             > Scale
        /\ enhanced[i][c] = Scale
  /\ \E i \in PixelIds : \E c \in Channels :
        /\ pixelBuffer[i][c] * Scale > Scale * Pow(refined[i], EffectiveGamma(refined, parameters.gamma))
        /\ toned[i][c] = Scale

C7_InvalidConfigurationFailsFast ==
  /\ stage = "start" =>
       /\ ran = <<>>
       /\ proxy = NoBuffer /\ coarse = NoBuffer /\ refined = NoBuffer
       /\ toned = NoBuffer /\ enhanced = NoBuffer
  /\ (/\ stage \notin {"idle", "start"}
      /\ \/ parameters.beta >= Scale
         \/ parameters.alpha <= 0
         \/ parameters.guidedEpsilon <= 0
         \/ parameters.sharpenRadius < 0) =>
       /\ stage = "failed"
       /\ result = "configurationError"
       /\ ran = <<>>
       /\ proxy = NoBuffer /\ coarse = NoBuffer /\ refined = NoBuffer
       /\ toned = NoBuffer /\ enhanced = NoBuffer

\* an enhance call with alpha = 0 has ended
C7_Witness ==
  /\ stage = "failed"
  /\ result = "configurationError"
  /\ parameters.alpha = 0
  /\ pixelBuffer # NoBuffer

NoNonFinite ==
  /\ proxy # NoBuffer => \A i \in PixelIds : proxy[i] # NonFinite
  /\ coarse # NoBuffer => \A i \in PixelIds : coarse[i] # NonFinite
  /\ refined # NoBuffer => \A i \in PixelIds : refined[i] # NonFinite
  /\ toned # NoBuffer => \A i \in PixelIds : \A c \in Channels : toned[i][c] # NonFinite
  /\ enhanced # NoBuffer => \A i \in PixelIds : \A c \in Channels : enhanced[i][c] # NonFinite

StageRank ==
  CASE stage = "idle" -> 0
    [] stage = "start" -> 0
    [] stage = "validated" -> 1
    [] stage = "projected" -> 2
    [] stage = "estimated" -> 3
    [] stage = "refined" -> 4
    [] stage = "toned" -> 5
    [] stage = "done" -> 6
    [] stage = "failed" -> 1

\* the positions from which a stage of the orchestrator proceeds
RunningStages == {"start", "validated", "projected", "estimated", "refined", "toned"}

SameInput(a, b) == a.pixelBuffer = b.pixelBuffer /\ a.parameters = b.parameters

StageOrder ==
  <<"ColorSpaceProjector", "IlluminationEstimator", "StructurePreservingRefiner",
    "AdaptiveToneMapper", "DetailRestorer">>

\* C12: within one enhance call the stages run exactly once each in the
\* order projector, estimator, refiner, tone mapper, detail restorer: the
\* stages executed so far are always an initial part of that order, a stage
\* has produced its output exactly when it is among them, and a call that
\* has ended without error has run all five.
C12_StagesRunOnceInOrder ==
  /\ Len(ran) <= Len(StageOrder)
  /\ ran = SubSeq(StageOrder, 1, Len(ran))
  /\ (proxy # NoBuffer) <=> (Len(ran) >= 1)
  /\ (coarse # NoBuffer) <=> (Len(ran) >= 2)
  /\ (refined # NoBuffer) <=> (Len(ran) >= 3)
  /\ (toned # NoBuffer) <=> (Len(ran) >= 4)
  /\ (enhanced # NoBuffer) <=> (Len(ran) >= 5)
  /\ stage = "done" => ran = StageOrder
  /\ stage = "failed" => ran = <<>>

\* an enhance call has run its five stages and returned
C12_Witness ==
  /\ stage = "done"
  /\ result = "ok"
  /\ ran = StageOrder
  /\ enhanced # NoBuffer

\* buffer out has the width, height and channels of buffer in
SameShape(out, in) ==
  /\ DOMAIN out = DOMAIN in
  /\ \A i \in DOMAIN out : DOMAIN out[i] = DOMAIN in[i]

SharpenRadii == 0..2

\* C14: with sharpenAmount = 0 the Detail Restorer is the identity: for
\* every tone-mapped buffer with values in [0, 1] and every sharpenRadius
\* >= 0 its output equals its input sample for sample.
C14_ZeroAmountIsIdentity ==
  /\ (toned # NoBuffer /\ InRange(toned, 0, Scale)) =>
        \A radius \in SharpenRadii : DetailRestorer(toned, 0, radius) = toned
  /\ (enhanced # NoBuffer /\ parameters.sharpenAmount = 0) => enhanced = toned

\* an enhance call with sharpenAmount = 0 and radius 2 has returned a
\* tone-mapped buffer that is not flat (its blur differs from it)
C14_Witness ==
  /\ stage = "done"
  /\ parameters.sharpenAmount = 0
  /\ parameters.sharpenRadius = 2
  /\ enhanced = toned
  /\ \E i \in PixelIds : \E c \in Channels :
        Blur(toned, c, i, parameters.sharpenRadius) # toned[i][c]

\* the exponents 1/GammaDen .. 1 the tone mapper is compared on
Gammas == 1..GammaDen

\* the refined map is handed to the tone mapper, and it is an Illumination
\* Map the tone mapper can divide by
DivisorMap ==
  /\ stage = "refined"
  /\ MapInRange(refined, parameters.beta, Scale)
  /\ \A i \in PixelIds : refined[i] > 0

\* the output of the tone mapper on the input buffer and the refined map of
\* the call, for each exponent
ToneMappedWith ==
  [g \in Gammas |->
     [i \in PixelIds |->
        [c \in Channels |-> AdaptiveToneMapper(pixelBuffer, refined, g)[i][c]]]]

Brightness(buf) ==
  SumOn([i \in PixelIds |-> buf[i][1] + buf[i][2] + buf[i][3]], PixelIds)

Black == [i \in PixelIds |-> <<0, 0, 0>>]

\* enhance has been called on the fully black image with default parameters
BlackImageCall == stage # "idle" /\ pixelBuffer = Black /\ parameters = DefaultParameters

\* the mean brightness of the output is at most 1/beta^gamma
BoundedByBetaGamma(out) ==
  Brightness(out) * Pow(parameters.beta, EffectiveGamma(refined, parameters.gamma))
    <= Scale * Scale * 3 * NumPixels

ClampBuffer(buf, lo, hi) ==
  [i \in PixelIds |-> [c \in Channels |-> Clamp(buf[i][c], lo, hi)]]

ClampMap(map, lo, hi) == [i \in PixelIds |-> Clamp(map[i], lo, hi)]

\* the unsharp mask before its clamp
Unsharp(buf, amount, radius) ==
  [i \in PixelIds |->
     [c \in Channels |->
        IF Blur(buf, c, i, radius) = NonFinite THEN NonFinite
        ELSE buf[i][c] + (amount * (buf[i][c] - Blur(buf, c, i, radius))) \div Scale]]

\* the values of the stages of the call before they are clamped
RawCoarse == IlluminationEstimatorNoClamp(proxy, parameters.alpha, parameters.beta)
RawRefined == GuidedFilter(coarse, proxy, parameters.guidedRadius, parameters.guidedEpsilon)
RawToned == AdaptiveToneMapperNoClamp(pixelBuffer, refined, parameters.gamma)
RawEnhanced == Unsharp(toned, parameters.sharpenAmount, parameters.sharpenRadius)

\* C17: clamping is idempotent: for every buffer, clamping it to its valid
\* range and then clamping the result again yields the same buffer as
\* clamping once, and clamping a buffer whose values are already in range
\* leaves it unchanged.
C17_ClampingIsIdempotent ==
  /\ coarse # NoBuffer =>
        LET once == ClampMap(RawCoarse, parameters.beta, Scale)
        IN /\ ClampMap(once, parameters.beta, Scale) = once
           /\ MapInRange(coarse, parameters.beta, Scale) =>
                 ClampMap(coarse, parameters.beta, Scale) = coarse
  /\ refined # NoBuffer =>
        LET once == ClampMap(RawRefined, parameters.beta, Scale)
        IN /\ ClampMap(once, parameters.beta, Scale) = once
           /\ MapInRange(refined, parameters.beta, Scale) =>
                 ClampMap(refined, parameters.beta, Scale) = refined
  /\ toned # NoBuffer =>
        LET once == ClampBuffer(RawToned, 0, Scale)
        IN /\ ClampBuffer(once, 0, Scale) = once
           /\ InRange(toned, 0, Scale) => ClampBuffer(toned, 0, Scale) = toned
  /\ enhanced # NoBuffer =>
        LET once == ClampBuffer(RawEnhanced, 0, Scale)
        IN /\ ClampBuffer(once, 0, Scale) = once
           /\ InRange(enhanced, 0, Scale) => ClampBuffer(enhanced, 0, Scale) = enhanced
  /\ (pixelBuffer # NoBuffer /\ InRange(pixelBuffer, 0, Scale)) =>
        ClampBuffer(pixelBuffer, 0, Scale) = pixelBuffer

\* a call has ended whose input has a sample at 1, whose tone mapping went
\* above 1 before its clamp and whose sharpening went below 0 before its
\* clamp
C17_Witness ==
  /\ stage = "done"
  /\ \E i \in PixelIds : \E c \in Channels : pixelBuffer[i][c] = Scale
  /\ \E i \in PixelIds : \E c \in Channels : RawToned[i][c] > Scale /\ toned[i][c] = Scale
  /\ \E i \in PixelIds : \E c \in Channels : RawEnhanced[i][c] < 0 /\ enhanced[i][c] = 0

(***************************************************************************)
(* Further properties of the page and of the handler                       *)
(***************************************************************************)
\* request r was started for a selection that is no longer the current one
Stale(r) == upfile[r] # selectedFile

\* the fetch of request r settles in this step
Settles(r) == r \in inflight /\ r \notin inflight'

\* C21: whenever enhancedImage is non-null it is the result of enhancing the
\* file currently held in selectedFile, and a response to a request that was
\* started for an earlier selection never sets enhancedImage or error for
\* the current selection.
C21_EnhancedImageOfCurrentSelection ==
  /\ [](enhancedImage # Null =>
          selectedFile # NoFile /\ enhancedImage = EnhancedOf(UploadOf(selectedFile)))
  /\ [][\A r \in Reqs :
          (Settles(r) /\ Stale(r)) =>
             enhancedImage' = enhancedImage /\ error' = error]_vars

\* request r is answered in this step
Answers(r) == Len(resps'[r]) = Len(resps[r]) + 1

\* the response sent in this step
Answer(r) == resps'[r][Len(resps'[r])]

\* C22: the handler responds with status 200 only if the Python process
\* finished without error and the output file existed afterwards, and the
\* response body is the content of that output file as read before the
\* temporary files were deleted; a failure while deleting the temporary
\* files does not change the 200 response.
C22_SuccessSendsEnhancedImage ==
  /\ [][\A r \in Reqs :
          (Answers(r) /\ Answer(r).status = 200) =>
             /\ pc[r] = "exited"
             /\ pythonRuns[r] = 1
             /\ ~pyErr[r]
             /\ exists(disk, outputPathOf(reqFile[r]))
             /\ Answer(r) = Image(disk[outputPathOf(reqFile[r])])
             /\ Answer(r).body.kind = "enhanced"]_vars
  /\ [](\A r \in Reqs :
          path[r] = "success" =>
             /\ Len(resps[r]) = 1
             /\ resps[r][1].status = 200
             /\ resps[r][1].body.kind = "enhanced")

\* one request was answered 200 after both temporary files were deleted,
\* another one was answered 200 although its input file could not be deleted
C22_Witness ==
  \E r, q \in Reqs :
    /\ path[r] = "success" /\ resps[r][1].status = 200
    /\ ~exists(disk, inputPathOf(reqFile[r])) /\ ~exists(disk, outputPathOf(reqFile[r]))
    /\ path[q] = "success" /\ resps[q][1].status = 200
    /\ exists(disk, inputPathOf(reqFile[q])) /\ exists(disk, outputPathOf(reqFile[q]))
    /\ resps[q][1].body = EnhancedOf(UploadOf(upfile[q]))

\* C23: the handler starts the Python process only after all of these held,
\* in this order: the method is POST, multer stored a file without error,
\* the uploaded input file exists on disk, and the script file exists. If
\* the method is not POST it responds 405 without storing any upload; if no
\* file was uploaded it responds 400; if the input file or the script is
\* missing it responds 500; in none of these cases is the Python process
\* started.
C23_PythonStartsAfterAllChecks ==
  /\ [][\A r \in Reqs :
          (pythonRuns'[r] > pythonRuns[r]) =>
             /\ method[r] = "POST"
             /\ pc[r] = "uploaded"
             /\ Stored(r)
             /\ resps[r] = <<>>
             /\ exists(disk, inputPathOf(reqFile[r]))
             /\ scriptOk]_vars
  /\ [][\A r \in Reqs :
          (pc[r] = "received" /\ pc'[r] # "received") =>
             /\ method[r] # "POST" =>
                  /\ resps'[r] = <<Json(405, "Method not allowed", "")>>
                  /\ ~Stored(r)' /\ disk' = disk /\ pythonRuns'[r] = 0 /\ Done(r)'
             /\ (method[r] = "POST" /\ upfile[r] = NoFile) =>
                  /\ resps'[r] = <<Json(400, "No image file uploaded", "")>>
                  /\ ~Stored(r)' /\ pythonRuns'[r] = 0 /\ Done(r)']_vars
  /\ [][\A r \in Reqs :
          (pc[r] = "uploaded" /\ pc'[r] # "uploaded") =>
             /\ ~exists(disk, inputPathOf(reqFile[r])) =>
                  /\ resps'[r] = <<Json(500, "Uploaded file not found", "")>>
                  /\ pythonRuns'[r] = 0 /\ Done(r)'
             /\ (exists(disk, inputPathOf(reqFile[r])) /\ ~scriptOk) =>
                  /\ resps'[r] = <<Json(500, "Python script not found", "")>>
                  /\ pythonRuns'[r] = 0 /\ Done(r)']_vars
  /\ [](\A r \in Reqs :
          path[r] \in {"methodNotAllowed", "noFile", "uploadError", "inputMissing",
                       "scriptMissing"} => pythonRuns[r] = 0)

\* a PUT that carried a file was answered 405 and its file is nowhere on
\* disk, and a POST has had its Python process started after its upload was
\* stored
C23_Witness ==
  \E r, q \in Reqs :
    /\ path[r] = "methodNotAllowed" /\ resps[r][1].status = 405 /\ ~Stored(r)
    /\ upfile[r] # NoFile
    /\ \A p \in Paths : disk[p] # UploadOf(upfile[r])
    /\ pc[q] = "python" /\ pythonRuns[q] = 1 /\ Stored(q) /\ scriptOk

\* C24: at most one enhancement request started by the page is in flight at
\* any time: isLoading is true from the start of handleSubmit until its
\* request settles, the Enhance button is disabled while isLoading is true,
\* and no sequence of user events (select, drop, reset, enhance) starts a
\* second request before the first has settled.
C24_OneRequestInFlight ==
  /\ Cardinality(inflight) <= 1
  /\ inflight # {} => isLoading
  /\ isLoading => ~EnhanceButtonEnabled
  /\ called.op = "handleSubmit" =>
       \E r \in Reqs : inflight = {r} /\ origin[r] = "page" /\ isLoading

\* while the request of the page is pending the user has reset the page and
\* selected another file: the preview section with the Enhance button is
\* shown again, and no second request can be started
C24_Witness ==
  \E r \in Reqs :
    /\ inflight = {r}
    /\ isLoading
    /\ called.op = "handleFile"
    /\ selectedFile # NoFile
    /\ selectedFile # upfile[r]
    /\ originalImage # Null

\* the response of request r has arrived and is ok
ResponseOk(r) == pc[r] = "done" /\ resps[r] # <<>> /\ resps[r][1].status = 200

\* C25: every handleSubmit that started a request leaves isLoading false
\* once its fetch settles, whether the response is ok, is an HTTP error, or
\* the fetch rejects; on success enhancedImage is set and error is empty, on
\* failure error is set to 'Failed to enhance image: ...' and enhancedImage
\* is left unchanged. A handleSubmit with no selected file sets 'Please
\* select an image first' and sends no request.
C25_SubmitSettles ==
  /\ [][\A r \in Reqs :
          Settles(r) =>
             /\ ~isLoading'
             /\ \/ /\ ResponseOk(r)
                   /\ enhancedImage' = resps[r][1].body
                   /\ enhancedImage' # Null
                   /\ error' = ""
                \/ /\ error' = "Failed to enhance image"
                   /\ enhancedImage' = enhancedImage]_vars
  /\ [][(called'.op = "handleSubmit" /\ (originalImage = Null \/ selectedFile = NoFile)) =>
          /\ error' = "Please select an image first"
          /\ inflight' = inflight
          /\ PageRequests' = PageRequests]_vars

\* C26: whenever the error state is non-empty the error message is displayed
\* on the page; in particular, when an enhancement request fails, the
\* 'Failed to enhance image: ...' message set by handleSubmit is visible to
\* the user while the selected image is still shown.
C26_ErrorIsDisplayed ==
  /\ error # "" => ErrorDisplayed
  /\ (error = "Failed to enhance image" /\ originalImage # Null) => ErrorDisplayed

\* C27: in every reachable page state originalImage is non-null if and only
\* if selectedFile is non-null, and the upload section is shown exactly when
\* originalImage is null; so the Enhance button is reachable only when a
\* file is selected.
C27_ImageIffFileSelected ==
  /\ (originalImage # Null) <=> (selectedFile # NoFile)
  /\ originalImage # Null => originalImage = createObjectURL(selectedFile)
  /\ UploadSectionShown <=> (originalImage = Null)
  /\ EnhanceButtonEnabled => selectedFile # NoFile
  /\ called.op = "handleSubmit" => selectedFile # NoFile

\* a file has just been selected after an earlier request of the page had
\* ended and the page had been reset
C27_Witness ==
  /\ called.op = "handleFile"
  /\ selectedFile = called.file
  /\ originalImage = createObjectURL(selectedFile)
  /\ ~UploadSectionShown
  /\ \E r \in Reqs : origin[r] = "page" /\ Done(r) /\ r \notin inflight

\* handleFile refuses the file: its type is not a valid one or it is larger
\* than the maximum
FailsValidation(f) == f.type \notin validTypes \/ f.size > MaxFileSize

\* C28: handleFile with a file that fails validation (wrong type or too
\* large) changes only error: selectedFile, originalImage and enhancedImage
\* keep their previous values. handleFile with a valid file clears error,
\* sets selectedFile and originalImage to that file, and sets enhancedImage
\* to null; handleFile with no file changes nothing.
C28_HandleFileFrame ==
  [][called'.op = "handleFile" =>
       /\ isLoading' = isLoading /\ inflight' = inflight /\ srvVars' = srvVars
       /\ called'.file = NoFile =>
            UNCHANGED <<error, selectedFile, originalImage, enhancedImage>>
       /\ (called'.file # NoFile /\ FailsValidation(called'.file)) =>
            /\ error' \in {"Please select a valid image file (JPG, JPEG, or PNG)",
                           "File size must be less than 10MB"}
            /\ UNCHANGED <<selectedFile, originalImage, enhancedImage>>
       /\ (called'.file # NoFile /\ ~FailsValidation(called'.file)) =>
            /\ error' = ""
            /\ selectedFile' = called'.file
            /\ originalImage' = createObjectURL(called'.file)
            /\ enhancedImage' = Null]_vars

\* a file that fails validation has just been handed to handleFile while the
\* page held the enhanced image of an earlier request: the image was kept
C28_Witness ==
  /\ called.op = "handleFile"
  /\ called.file # NoFile
  /\ FailsValidation(called.file)
  /\ error # ""
  /\ enhancedImage # Null
  /\ selectedFile = NoFile

\* the effects and renders that were due have run
ThemeSettled == mounted /\ queued = <<>> /\ ~effectDue

\* C29: when the page loads with a theme saved in localStorage, then once
\* the mount effects and the re-render they cause have run, darkMode equals
\* the saved theme and localStorage 'theme' holds that same value; afterwards,
\* after every toggleTheme and its effect, localStorage 'theme' is 'dark'
\* exactly when darkMode is true, and two toggles restore the previous theme.
C29_ThemeRoundTrip ==
  /\ (ThemeSettled /\ savedAtLoad # NoTheme /\ Len(themes) = 1) =>
        /\ darkMode = (savedAtLoad = "dark")
        /\ localTheme = savedAtLoad
  /\ ThemeSettled =>
        /\ (localTheme = "dark") <=> darkMode
        /\ localTheme = ThemeOf(darkMode)
        /\ classDark = darkMode
  /\ (mounted /\ queued = <<>>) => themes[Len(themes)] = darkMode
  /\ \A k \in 1..Len(themes) :
        /\ (k > 1 /\ k + 1 <= Len(themes)) => themes[k + 1] # themes[k]
        /\ (k > 1 /\ k + 2 <= Len(themes)) => themes[k + 2] = themes[k]

\* the page was loaded with the dark theme saved, the user has toggled the
\* theme twice, and the dark theme is shown and stored again
C29_Witness ==
  /\ savedAtLoad = "dark"
  /\ ThemeSettled
  /\ Len(themes) = 3
  /\ themes = <<TRUE, FALSE, TRUE>>
  /\ darkMode
  /\ localTheme = "dark"

====
